---- MODULE Spec2Model ----
(***************************************************************************)
(* Blood-bank inventory and request fulfilment (src/app.py).               *)
(*                                                                         *)
(* The state is the five tables the handlers read and write, the message   *)
(* the last finished handler flashed, and the fulfilment runs that have    *)
(* executed their SELECTs but not yet their UPDATEs (one per server        *)
(* thread).  Row ids (AUTO_INCREMENT keys, the uuid part of a bag_id) are  *)
(* the row's position in its table.  A statement that the database         *)
(* refuses (duplicate key, lost connection, ...) is the input failAt: the  *)
(* number of the write statement of the call that raises, 0 for none.      *)
(***************************************************************************)
EXTENDS Integers, Sequences, FiniteSets, Bags

VARIABLES Donor, Blood_Bag, Donation_Transaction, Recipient, Blood_Request,
          inflight, flash

tables == <<Donor, Blood_Bag, Donation_Transaction, Recipient, Blood_Request>>
vars == <<Donor, Blood_Bag, Donation_Transaction, Recipient, Blood_Request,
          inflight, flash>>

(* ------------------------------ bounds -------------------------------- *)
MaxDonors == 1
MaxBags == 2
MaxStock == 2
MaxRequests == 2
MaxUnitsRequested == 2
MaxWorkers == 2

(* ------------------------- program constants -------------------------- *)
MaxUnitsPerSession == 3

Groups == {"A+", "O-"}
StaffIds == {1, 2}

(* inputs of the forms and routes *)
UnitsDonatedInputs == -1..(MaxUnitsPerSession + 1)
UnitsRequestedInputs == 0..MaxUnitsRequested
DateInputs == {<<y, 2, d>> : y \in {2023, 2024}, d \in {28, 29}}
RequestIds == 1..(MaxRequests + 1)
DonorIds == 1..(MaxDonors + 1)
\* the write statement of a call that the database refuses (0: none); a session
\* of u units executes 2u INSERTs and a commit
FailPoints == 0..3
DonationFailPoints(u) == 0..(2 * (IF u > 0 THEN u ELSE 0) + 1)
\* the donations of the full specification: sessions of one or two units on
\* days that exist in the following year as well
StockUnits == 1..2
StockDates == {<<2023, 2, 28>>, <<2024, 2, 28>>}

(* ------------------------------- dates -------------------------------- *)
IsLeap(y) == (y % 4 = 0 /\ y % 100 # 0) \/ y % 400 = 0

DaysInMonth(y, m) ==
    IF m = 2 THEN (IF IsLeap(y) THEN 29 ELSE 28)
    ELSE IF m \in {4, 6, 9, 11} THEN 30 ELSE 31

IsDate(d) == d[2] \in 1..12 /\ d[3] \in 1..DaysInMonth(d[1], d[2])

\* datetime.strptime(s, '%Y-%m-%d').date(): raises when s names no calendar day
strptime_ok(s) == IsDate(s)

\* date.replace(year = ...): raises when the day does not exist in that year
ReplaceYear(d, y) == <<y, d[2], d[3]>>
replace_ok(d, y) == IsDate(ReplaceYear(d, y))

DateLess(a, b) ==
    \/ a[1] < b[1]
    \/ a[1] = b[1] /\ a[2] < b[2]
    \/ a[1] = b[1] /\ a[2] = b[2] /\ a[3] < b[3]

(* --------------------------- the database ----------------------------- *)
Tables == [Donor |-> Donor, Blood_Bag |-> Blood_Bag,
           Donation_Transaction |-> Donation_Transaction,
           Recipient |-> Recipient, Blood_Request |-> Blood_Request]

SetTables(db) ==
    /\ Donor' = db.Donor
    /\ Blood_Bag' = db.Blood_Bag
    /\ Donation_Transaction' = db.Donation_Transaction
    /\ Recipient' = db.Recipient
    /\ Blood_Request' = db.Blood_Request

\* a transaction in progress: the connection's view of the tables, the number
\* of write statements executed, and the exception raised ("" for none)
Begin(db) == [db |-> db, stmt |-> 0, error |-> ""]

Raise(t, e) == IF t.error # "" THEN t ELSE [t EXCEPT !.error = e]

\* cur.execute / connection.commit of one write statement
Execute(t, failAt, newdb) ==
    IF t.error # "" THEN t
    ELSE IF t.stmt + 1 = failAt
         THEN [t EXCEPT !.stmt = @ + 1, !.error = "db_error"]
         ELSE [db |-> newdb, stmt |-> t.stmt + 1, error |-> ""]

NoRollback(committed, t) == t.db

\* mysql.connection.rollback()
Rollback(committed, t) == committed

\* the tables once the handler has returned
Outcome(committed, t) ==
    IF t.error # "" THEN Rollback(committed, t) ELSE t.db

\* flash(message, category): the message kind and, where the text carries the
\* exception, its kind
Msg(m, e) == [msg |-> m, error |-> e]

Init ==
    /\ Donor = <<>>
    /\ Blood_Bag = <<>>
    /\ Donation_Transaction = <<>>
    /\ Recipient = <<>>
    /\ Blood_Request = <<>>
    /\ inflight = EmptyBag
    /\ flash = Msg("", "")

(* ------------------------------ add_donor ----------------------------- *)
InsertDonor(db, bgroup) ==
    [db EXCEPT !.Donor = Append(@, [blood_group |-> bgroup])]

add_donor(bgroup, failAt) ==
    /\ LET t1 == Execute(Begin(Tables), failAt, InsertDonor(Tables, bgroup))
           t2 == Execute(t1, failAt, t1.db)
       IN /\ SetTables(IF t2.error # "" THEN Tables ELSE t2.db)
          /\ flash' = IF t2.error # ""
                      THEN Msg("donor_error", t2.error)
                      ELSE Msg("donor_registered", "")
    /\ UNCHANGED inflight

(* --------------------------- record_donation -------------------------- *)
\* INSERT INTO Blood_Bag: status is the column default
InsertBloodBag(db, bag_id, blood_group, donation_date, expiry_date, donor_id) ==
    [db EXCEPT !.Blood_Bag = Append(@,
        [bag_id |-> bag_id, blood_group |-> blood_group,
         donation_date |-> donation_date, expiry_date |-> expiry_date,
         donor_id |-> donor_id, status |-> "Quarantined"])]

\* the stock trigger fired by an insert into Donation_Transaction
StockTrigger(db, bag_id) ==
    [db EXCEPT !.Blood_Bag =
        [i \in DOMAIN @ |-> IF @[i].bag_id = bag_id /\ @[i].status = "Quarantined"
                            THEN [@[i] EXCEPT !.status = "Available"]
                            ELSE @[i]]]

InsertDonationTransaction(db, donor_id, staff_id, bag_id) ==
    StockTrigger(
        [db EXCEPT !.Donation_Transaction = Append(@,
            [donor_id |-> donor_id, staff_id |-> staff_id, bag_id |-> bag_id])],
        bag_id)

\* bag_id = f"BAG-{blood_group}-{uuid}-{i+1}": the uuid part is the row number
BagId(db, blood_group, i) ==
    [blood_group |-> blood_group, uuid |-> Len(db.Blood_Bag) + 1, unit |-> i + 1]

RECURSIVE DonationLoop(_, _, _, _, _, _, _, _, _)
DonationLoop(t, i, units_donated, blood_group, donation_date, expiry_date, donor_id, staff_id, failAt) ==
    IF i >= units_donated \/ t.error # "" THEN t
    ELSE LET bag_id == BagId(t.db, blood_group, i)
             t1 == Execute(t, failAt,
                     InsertBloodBag(t.db, bag_id, blood_group, donation_date,
                                    expiry_date, donor_id))
             t2 == Execute(t1, failAt,
                     InsertDonationTransaction(t1.db, donor_id, staff_id, bag_id))
         IN DonationLoop(t2, i + 1, units_donated, blood_group, donation_date,
                         expiry_date, donor_id, staff_id, failAt)

\* the try block of record_donation
RecordDonationTx(db, donor_id, staff_id, units_donated, donation_date_str, failAt) ==
    LET t0 == Begin(db) IN
    IF donor_id \notin DOMAIN db.Donor THEN Raise(t0, "donor_not_found")
    ELSE IF ~strptime_ok(donation_date_str) THEN Raise(t0, "bad_date_string")
    ELSE IF ~replace_ok(donation_date_str, donation_date_str[1] + 1)
         THEN Raise(t0, "day_out_of_range")
    ELSE LET blood_group == db.Donor[donor_id].blood_group
             donation_date == donation_date_str
             expiry_date == ReplaceYear(donation_date, donation_date[1] + 1)
             t1 == DonationLoop(t0, 0, units_donated, blood_group, donation_date,
                                expiry_date, donor_id, staff_id, failAt)
         IN Execute(t1, failAt, t1.db)

CapMoreThanFour(units_donated) == units_donated > MaxUnitsPerSession + 1

\* the server-side validation check
OverCap(units_donated) == units_donated > MaxUnitsPerSession

record_donation(donor_id, staff_id, units_donated, donation_date_str, failAt) ==
    /\ IF OverCap(units_donated)
       THEN /\ flash' = Msg("cap_exceeded", "")
            /\ UNCHANGED tables
       ELSE LET t == RecordDonationTx(Tables, donor_id, staff_id, units_donated,
                                      donation_date_str, failAt)
            IN /\ SetTables(Outcome(Tables, t))
               /\ flash' = IF t.error # ""
                           THEN Msg("donation_failed", t.error)
                           ELSE Msg("donation_recorded", "")
    /\ UNCHANGED inflight

(* ---------------------------- request_blood --------------------------- *)
InsertRecipient(db, required_group) ==
    [db EXCEPT !.Recipient = Append(@, [required_blood_group |-> required_group])]

InsertBloodRequest(db, patient_id, required_group, units) ==
    [db EXCEPT !.Blood_Request = Append(@,
        [patient_id |-> patient_id, requested_group |-> required_group,
         units_requested |-> units, fulfillment_status |-> "Pending"])]

\* the try block of request_blood
RequestBloodTx(db, required_group, units, failAt) ==
    LET t1 == Execute(Begin(db), failAt, InsertRecipient(db, required_group))
        patient_id == Len(t1.db.Recipient)
        t2 == Execute(t1, failAt,
                      InsertBloodRequest(t1.db, patient_id, required_group, units))
    IN Execute(t2, failAt, t2.db)

request_blood(required_group, units, failAt) ==
    /\ LET t == RequestBloodTx(Tables, required_group, units, failAt)
       IN /\ SetTables(Outcome(Tables, t))
          /\ flash' = IF t.error # ""
                      THEN Msg("request_error", t.error)
                      ELSE Msg("request_created", "")
    /\ UNCHANGED inflight

(* --------------------------- fulfill_request -------------------------- *)
MatchingBags(bags, required_group) ==
    {i \in DOMAIN bags : bags[i].blood_group = required_group
                         /\ bags[i].status = "Available"}

Min(a, b) == IF a < b THEN a ELSE b

\* sql_find_bag: the results the SELECT can return (rows of equal expiry_date
\* come in any order)
SelectBags(bags, required_group, units_needed) ==
    LET m == MatchingBags(bags, required_group)
        k == Min(units_needed, Cardinality(m))
    IN {S \in SUBSET m :
           /\ Cardinality(S) = k
           /\ \A s \in S, r \in m \ S :
                 ~DateLess(bags[r].expiry_date, bags[s].expiry_date)}

\* steps 1 and 2 of fulfill_request: the two SELECTs.  rows_read is the number
\* of Blood_Bag rows in the snapshot the SELECT read.
FulfillSelect(request_id) ==
    /\ IF request_id \notin DOMAIN Blood_Request
       THEN /\ flash' = Msg("request_not_found", "")
            /\ UNCHANGED inflight
       ELSE LET request_details == Blood_Request[request_id] IN
            \E available_bags \in SelectBags(Blood_Bag,
                                             request_details.requested_group,
                                             request_details.units_requested) :
               /\ inflight' = inflight (+) SetToBag({
                     [request_id |-> request_id,
                      required_group |-> request_details.requested_group,
                      units_needed |-> request_details.units_requested,
                      available_bags |-> available_bags,
                      rows_read |-> Len(Blood_Bag)]})
               /\ UNCHANGED flash
    /\ UNCHANGED tables

UpdateBags(db, bag_ids_to_use) ==
    [db EXCEPT !.Blood_Bag =
        [i \in DOMAIN @ |-> IF i \in bag_ids_to_use
                            THEN [@[i] EXCEPT !.status = "Used"] ELSE @[i]]]

UpdateRequest(db, request_id, status) ==
    [db EXCEPT !.Blood_Request[request_id].fulfillment_status = status]

\* "STOCK IS AVAILABLE": UPDATE the bags, UPDATE the request, commit.
\* With no bag ids the statement reads "WHERE bag_id IN ()", which MySQL refuses.
FulfilBranch(t, run, failAt) ==
    IF run.available_bags = {} THEN Raise(t, "sql_syntax")
    ELSE LET t1 == Execute(t, failAt, UpdateBags(t.db, run.available_bags))
             t2 == Execute(t1, failAt,
                           UpdateRequest(t1.db, run.request_id, "Fulfilled"))
         IN Execute(t2, failAt, t2.db)

RejectBranchPartial(t, run, failAt) ==
    LET t1 == Execute(t, failAt,
                UpdateRequest(UpdateBags(t.db, run.available_bags),
                              run.request_id, "Rejected"))
    IN Execute(t1, failAt, t1.db)

\* "STOCK UNAVAILABLE": UPDATE the request, commit
RejectBranch(t, run, failAt) ==
    LET t1 == Execute(t, failAt, UpdateRequest(t.db, run.request_id, "Rejected"))
    IN Execute(t1, failAt, t1.db)

EnoughStock(run) == Cardinality(run.available_bags) >= run.units_needed

\* the rest of the try block of fulfill_request
FulfillTx(db, run, failAt) ==
    IF EnoughStock(run)
    THEN FulfilBranch(Begin(db), run, failAt)
    ELSE RejectBranch(Begin(db), run, failAt)

FulfillWrite(run, failAt) ==
    /\ BagIn(run, inflight)
    /\ inflight' = inflight (-) SetToBag({run})
    /\ LET t == FulfillTx(Tables, run, failAt)
       IN /\ SetTables(Outcome(Tables, t))
          /\ flash' = IF t.error # "" THEN Msg("fulfil_error", t.error)
                      ELSE IF EnoughStock(run)
                           THEN Msg("fulfilled", "")
                           ELSE Msg("rejected", "")

(* --------------------------- specifications --------------------------- *)
\* Every handler.  fulfill_request runs interleave with every other call
\* between their SELECTs and their UPDATEs.  The bounds: at most MaxDonors
\* donors, MaxStock bags, MaxRequests requests and MaxWorkers runs in flight.
Next ==
    \/ \E g \in Groups : Len(Donor) < MaxDonors /\ add_donor(g, 0)
    \/ \E d \in DOMAIN Donor, u \in StockUnits, ds \in StockDates :
          /\ Len(Blood_Bag) + u <= MaxStock
          /\ \E f \in DonationFailPoints(u) : record_donation(d, 1, u, ds, f)
    \/ \E g \in Groups, u \in UnitsRequestedInputs, f \in FailPoints :
          Len(Blood_Request) < MaxRequests /\ request_blood(g, u, f)
    \/ \E r \in RequestIds :
          BagCardinality(inflight) < MaxWorkers /\ FulfillSelect(r)
    \/ \E run \in BagToSet(inflight), f \in FailPoints : FulfillWrite(run, f)

Spec == Init /\ [][Next]_vars

\* Donor registration and donation intake alone, over every input of the form.
\* A session may start while the bank holds fewer than MaxBags bags.
NextDonation ==
    \/ \E g \in Groups, f \in 0..2 : Len(Donor) < MaxDonors /\ add_donor(g, f)
    \/ \E d \in DonorIds, s \in StaffIds, u \in UnitsDonatedInputs, ds \in DateInputs :
          /\ Len(Blood_Bag) < MaxBags
          /\ \E f \in DonationFailPoints(u) : record_donation(d, s, u, ds, f)

SpecDonation == Init /\ [][NextDonation]_vars

(* ------------------------------ properties ---------------------------- *)
Terminal == {"Fulfilled", "Rejected"}

AvailableCount(bags, g) == Cardinality(MatchingBags(bags, g))

UsedCount(bags, g) ==
    Cardinality({i \in DOMAIN bags : bags[i].blood_group = g /\ bags[i].status = "Used"})

\* the bags a step moves to Used
ChangedToUsed ==
    {i \in DOMAIN Blood_Bag : Blood_Bag[i].status # "Used" /\ Blood_Bag'[i].status = "Used"}

\* the run's SELECT result is one the SELECT could still return now: nothing
\* the run read has changed since it read it
Undisturbed(run) ==
    run.available_bags \in SelectBags(Blood_Bag, run.required_group, run.units_needed)

MarksFulfilled(run, f) == EnoughStock(run) /\ FulfillTx(Tables, run, f).error = ""
MarksRejected(run, f) == ~EnoughStock(run) /\ FulfillTx(Tables, run, f).error = ""

Status(r) == Blood_Request[r].fulfillment_status

\* C1: a fulfilment run that no other call disturbs and no database failure
\* interrupts sets the request's status to Fulfilled if the Available bags of the
\* requested group number at least units_requested, and to Rejected otherwise,
\* for every stored units_requested, 0 included.
C1_FulfilledIffEnoughStock ==
    [][\A run \in BagToSet(inflight) :
          (FulfillWrite(run, 0) /\ Undisturbed(run)) =>
             Blood_Request'[run.request_id].fulfillment_status =
                IF AvailableCount(Blood_Bag, run.required_group) >= run.units_needed
                THEN "Fulfilled" ELSE "Rejected"]_vars

\* C2: a request whose status is Fulfilled or Rejected never changes status again.
C2_StatusTerminal ==
    [][\A r \in DOMAIN Blood_Request :
          Status(r) \in Terminal => Blood_Request'[r].fulfillment_status = Status(r)]_vars

\* C3: a run that marks a request for group G and quantity N Fulfilled changes
\* exactly N bags to Used, each of them Available and of group G before, and no
\* bag of group G that the run's SELECT read and that is still Available
\* afterwards expires strictly earlier than one of them.
C3_FulfilUsesEarliestN ==
    [][\A run \in BagToSet(inflight), f \in FailPoints :
          (FulfillWrite(run, f) /\ MarksFulfilled(run, f)) =>
             /\ Cardinality(ChangedToUsed) = run.units_needed
             /\ \A b \in ChangedToUsed :
                   /\ Blood_Bag[b].status = "Available"
                   /\ Blood_Bag[b].blood_group = run.required_group
                   /\ \A g \in MatchingBags(Blood_Bag', run.required_group) :
                         g <= run.rows_read =>
                         ~DateLess(Blood_Bag'[g].expiry_date, Blood_Bag[b].expiry_date)]_vars

\* C4: a run that marks its request Rejected, and a call that finds no request
\* with the given id, leave every Blood_Bag row as it was.
C4_RejectLeavesBags ==
    [][\/ Blood_Bag' = Blood_Bag
       \/ /\ \A r \in RequestIds : ~FulfillSelect(r)
          /\ \A run \in BagToSet(inflight), f \in FailPoints :
                ~(FulfillWrite(run, f) /\ MarksRejected(run, f))]_vars

C4_Witness ==
    /\ flash.msg = "rejected"
    /\ \E r \in DOMAIN Blood_Request :
          /\ Status(r) = "Rejected"
          /\ AvailableCount(Blood_Bag, Blood_Request[r].requested_group) >= 1
          /\ AvailableCount(Blood_Bag, Blood_Request[r].requested_group)
                < Blood_Request[r].units_requested

OneYearAfter(d) == <<d[1] + 1, d[2], d[3]>>

\* C5: a POST for an existing donor with U units (0..3) and a calendar date, with
\* no database failure, adds exactly U bags and U transactions, each new bag with
\* the donor's blood group, the donor id and an expiry one year after the date.
C5_DonationCreatesUnits ==
    [][\A d \in DOMAIN Donor, s \in StaffIds, u \in 0..MaxUnitsPerSession,
          ds \in {x \in DateInputs : IsDate(x)} :
          record_donation(d, s, u, ds, 0) =>
             /\ Len(Blood_Bag') = Len(Blood_Bag) + u
             /\ Len(Donation_Transaction') = Len(Donation_Transaction) + u
             /\ \A i \in (Len(Blood_Bag) + 1)..Len(Blood_Bag') :
                   /\ Blood_Bag'[i].blood_group = Donor[d].blood_group
                   /\ Blood_Bag'[i].donor_id = d
                   /\ Blood_Bag'[i].expiry_date = OneYearAfter(ds)]_vars

\* C6: every Blood_Bag row is named by exactly one Donation_Transaction row, and
\* every Donation_Transaction row names a Blood_Bag row.
C6_BagHasOneTransaction ==
    /\ \A i \in DOMAIN Blood_Bag :
          Cardinality({j \in DOMAIN Donation_Transaction :
                          Donation_Transaction[j].bag_id = Blood_Bag[i].bag_id}) = 1
    /\ \A j \in DOMAIN Donation_Transaction :
          \E i \in DOMAIN Blood_Bag :
             Blood_Bag[i].bag_id = Donation_Transaction[j].bag_id

C6_Witness ==
    /\ flash = Msg("donation_failed", "db_error")
    /\ Len(Blood_Bag) >= 1

\* C7: a POST with units_donated above 3 leaves every table as it was, and no
\* step adds more than 3 bags.
C7_SessionCap ==
    [][/\ Len(Blood_Bag') - Len(Blood_Bag) <= 3
       /\ \/ UNCHANGED tables
          \/ \A u \in {x \in UnitsDonatedInputs : x > 3}, d \in DonorIds,
                s \in StaffIds, ds \in DateInputs :
                \A f \in DonationFailPoints(u) : ~record_donation(d, s, u, ds, f)]_vars

C7_Witness ==
    /\ flash.msg = "cap_exceeded"
    /\ Len(Blood_Bag) >= 1

RecipientHasRequest ==
    /\ Len(Recipient) = Len(Blood_Request)
    /\ \A r \in DOMAIN Blood_Request : Blood_Request[r].patient_id = r

\* C8: a handler that flashes the error of a raised exception leaves every table
\* as it was; every Recipient has its Blood_Request; a donation adds all of the
\* session's bags or none; and a run that marks bags Used marks its request
\* Fulfilled in the same step.
C8_AllOrNothing ==
    [][/\ flash'.error # "" => UNCHANGED tables
       /\ RecipientHasRequest'
       /\ \/ Len(Blood_Bag') = Len(Blood_Bag)
          \/ \A d \in DOMAIN Donor, u \in StockUnits, ds \in StockDates :
                \A f \in DonationFailPoints(u) :
                   record_donation(d, 1, u, ds, f) =>
                      Len(Blood_Bag') = Len(Blood_Bag) + u
       /\ \/ ChangedToUsed = {}
          \/ \A run \in BagToSet(inflight), f \in FailPoints :
                FulfillWrite(run, f) =>
                   Blood_Request'[run.request_id].fulfillment_status = "Fulfilled"]_vars

C8_Witness ==
    /\ flash = Msg("fulfil_error", "db_error")
    /\ \E r \in DOMAIN Blood_Request :
          /\ Status(r) = "Pending"
          /\ AvailableCount(Blood_Bag, Blood_Request[r].requested_group)
                >= Blood_Request[r].units_requested
          /\ Blood_Request[r].units_requested > 0

\* C9: once a fulfilment run that no database failure interrupts has completed,
\* the request's status is Fulfilled or Rejected.
C9_RunEndsTerminal ==
    [][\A run \in BagToSet(inflight) :
          FulfillWrite(run, 0) =>
             Blood_Request'[run.request_id].fulfillment_status \in Terminal]_vars

\* C10: no bag is allocated twice: every bag that the run fulfilling a Pending
\* request names in its UPDATE is still Available when the UPDATE runs, so that
\* the run moves exactly units_requested bags of its group from Available to
\* Used (each Fulfilled request accounts for units_requested Used bags).
C10_NoDoubleAllocation ==
    [][\A run \in BagToSet(inflight), f \in FailPoints :
          (/\ FulfillWrite(run, f)
           /\ MarksFulfilled(run, f)
           /\ Status(run.request_id) = "Pending") =>
             /\ \A b \in run.available_bags : Blood_Bag[b].status = "Available"
             /\ UsedCount(Blood_Bag', run.required_group)
                   - UsedCount(Blood_Bag, run.required_group) = run.units_needed]_vars
====
